---- MODULE Spec2Model ----
(***************************************************************************)
(* Model of DataExtractor (src/src/etl/extract.py): the extraction         *)
(* coordinator extract_data with its three source stages (raw "Kaggle"     *)
(* files, sample files / synthetic generator, API placeholder), the        *)
(* validator validate_extracted_data, the loaders extract_from_url and     *)
(* extract_from_zip, and of the orchestrator run_full_pipeline with main   *)
(* (src/src/main.py).                                                      *)
(*                                                                         *)
(* A data frame is abstracted to its shape (rows, columns, null cells),    *)
(* the attrs that validation attaches, and a provenance tag src that       *)
(* records which source produced it.  A file on disk is absent, present    *)
(* but unparsable, or a CSV text with a shape.                             *)
(***************************************************************************)
EXTENDS Integers, Sequences, FiniteSets, TLC

VARIABLES
    raw,           \* data/raw: the expected file of each table
    sample,        \* data/sample: the expected file of each table
    sampleOther,   \* data/sample holds a *.csv that is no expected file
    sampleAtCall,  \* history: sample when the current call began
    pc,            \* position of the coordinator in extract_data
    datasets,      \* the local variable (or argument) datasets
    result,        \* the value the last call returned
    errors,        \* validation_errors of the validation run of this call
    trace,         \* history: the stages and steps of this call, in order
    saveFailed,    \* history: the tables whose to_csv raised in this call
    reads,         \* history: the pd.read_csv calls of this call, in order
    persisted,     \* history: some call generated the six tables and wrote them all
    retry_attempts,    \* self.retry_attempts
    attempt,           \* the loop variable of extract_from_url
    file_type,         \* the argument file_type of extract_from_url
    slept,             \* history: the seconds spent in time.sleep
    archive,           \* the file at zip_path given to extract_from_zip
    raw_data,          \* run_full_pipeline: what extract_data returned
    transformed_data,  \* run_full_pipeline: what transform_data returned
    success,           \* main: what run_full_pipeline returned
    exit_status,       \* the status the process exited with, if it did
    np_random,         \* the global RandomState of numpy
    py_random,         \* the global generator of the module random
    generated,         \* history: what the generator runs returned, in order
    extractor_class,   \* dashboard: the class bound to the name DataExtractor
    cache,             \* dashboard: the st.cache_data entry of load_data
    session_state,     \* dashboard: st.session_state of each browser session
    returned,          \* history: what load_data last returned to main, per session
    shown              \* history: how the last script run of each session ended

\* the state of the extraction coordinator and its directories
extractVars ==
    <<raw, sample, sampleOther, sampleAtCall, pc, datasets, result, errors, trace, saveFailed, reads, persisted>>
\* the state of extract_from_url
urlVars == <<retry_attempts, attempt, file_type, slept>>
\* the state of run_full_pipeline and main
pipelineVars == <<raw_data, transformed_data, success, exit_status>>

\* the state of the two pseudo-random generators and of the generator runs
generatorVars == <<np_random, py_random, generated>>
\* the state of the dashboard process and its browser sessions
dashboardVars == <<extractor_class, cache, session_state, returned, shown>>

vars == <<extractVars, urlVars, archive, pipelineVars, generatorVars, dashboardVars>>

(***************************************************************************)
(* Program constants                                                       *)
(***************************************************************************)
\* keys of kaggle_files / sample_files / file_mapping
Tables == {"customers", "orders", "order_items", "products", "sellers", "reviews"}

\* iteration order of the file mappings (dict insertion order)
TableOrder == <<"customers", "orders", "order_items", "products", "sellers", "reviews">>

min_rows == 10
min_columns == 2

num_customers == 1000
num_products == 500
num_sellers == 200
num_orders == 2000
max_reviews == 800
min_items_per_order == 1
max_items_per_order == 4

\* np.random.seed(42); random.seed(42)
generator_seed == 42

\* the sizes and rates of generate_sample_ecommerce_data (dataset_generator.py)
script_num_customers == 5000
script_num_products == 1000
script_num_sellers == 500
script_num_orders == 10000
script_max_items_per_order == 5
script_review_rate_percent == 80

\* int(os.getenv("RETRY_ATTEMPTS", 3)) with the variable unset
default_retry_attempts == 3
\* self.retry_delay, in seconds
retry_delay == 2

(***************************************************************************)
(* Bounds of the model                                                     *)
(***************************************************************************)
\* at most this many of the files present at the start are defective
\* (unparsable, or shorter than the validator's row threshold)
MaxDefects == 1
\* at most this many to_csv calls of one _save_sample_data run fail
MaxSaveFailures == 1
\* a dict passed to the validator directly has at most this many keys
MaxValidateKeys == 2
\* its frames have up to min_rows + MaxExtraRows rows
MaxExtraRows == 1
\* and up to min_columns + MaxExtraColumns columns
MaxExtraColumns == 1
\* RETRY_ATTEMPTS is set to at most this number
MaxAttempts == 4
\* a ZIP archive has at most this many members
MaxZipMembers == 3
\* the row-level model of _generate_sample_datasets divides every table
\* size by this
ScaleDown == 200
\* and that of generate_sample_ecommerce_data by this
ScriptScaleDown == 1000
\* a pseudo-random generator has this many states
RngModulus == 32
\* at most this many generator runs in one process
MaxRuns == 2
\* at most this many draws by other code of the process, per generator
MaxOtherDraws == 1
MaxSessions == 2

(***************************************************************************)
(* Values                                                                  *)
(***************************************************************************)
\* Python None, as a return value of a stage or of extract_data
None == [none |-> TRUE]

\* no call has returned yet
Pending == [pending |-> TRUE]

\* states of one file of a data directory
Absent == [kind |-> "absent"]
Bad == [kind |-> "bad"]
Csv(rows, cols, nulls) == [kind |-> "csv", rows |-> rows, cols |-> cols, nulls |-> nulls]

\* df.attrs of a frame that validation has not touched
NoAttrs == [stamped |-> FALSE, source_name |-> "", null_percentage |-> <<0, 1>>]

\* a pandas DataFrame
Frame(rows, cols, nulls, src) ==
    [kind |-> "frame", rows |-> rows, cols |-> cols, nulls |-> nulls,
     src |-> src, attrs |-> NoAttrs]

\* the browser sessions of the dashboard
Sessions == 1 .. MaxSessions

\* st.cache_data holds no entry for load_data
NoEntry == [entry |-> FALSE]

\* the key 'datasets' is not in st.session_state
NoDatasetsKey == [missing |-> TRUE]

\* a dict value that is None, and one that is no DataFrame at all
NoneValue == [kind |-> "none"]
NotAFrame == [kind |-> "object"]

RECURSIVE Gcd(_, _)
Gcd(a, b) == IF b = 0 THEN a ELSE Gcd(b, a % b)

\* the float (n / d) * 100 as an exact fraction in lowest terms
Percentage_Fraction(n, d) ==
    LET g == Gcd(n, d) IN <<n \div g, d \div g>>

Percentage(n, d) ==
    LET g == Gcd(n * 100, d) IN <<(n * 100) \div g, d \div g>>

\* how often event e occurs in the history tr
Count(tr, e) == Cardinality({i \in 1 .. Len(tr) : tr[i] = e})

\* the keys of a dict, in TableOrder
RECURSIVE KeysFrom(_, _)
KeysFrom(d, i) ==
    IF i > Len(TableOrder) THEN <<>>
    ELSE IF TableOrder[i] \in DOMAIN d
         THEN <<TableOrder[i]>> \o KeysFrom(d, i + 1)
         ELSE KeysFrom(d, i + 1)

Keys(d) == KeysFrom(d, 1)

RECURSIVE SubsetsUpTo(_, _)
SubsetsUpTo(S, k) ==
    IF k = 0 THEN {{}}
    ELSE LET prev == SubsetsUpTo(S, k - 1)
         IN  prev \cup {p \cup {x} : p \in prev, x \in S}

(***************************************************************************)
(* CSV files                                                               *)
(***************************************************************************)
\* pd.read_csv raises on an unparsable file and on a file without columns
\* (EmptyDataError)
ReadRaises(file) == file.kind = "bad" \/ (file.kind = "csv" /\ file.cols = 0)

\* pd.read_csv(file_path): the frame parsed from a CSV text
read_csv(file, src) == Frame(file.rows, file.cols, file.nulls, src)

to_csv_HeaderOnly(df) == Csv(0, df.cols, 0)

\* df.to_csv(file_path, index=False): header line and one line per row;
\* a null cell is written as an empty field.  attrs are not written.
to_csv(df) == Csv(df.rows, df.cols, df.nulls)

files_read_Retry(name, dir) ==
    LET from[i \in 1 .. (Len(TableOrder) + 1)] ==
            IF i > Len(TableOrder) THEN <<>>
            ELSE LET t == TableOrder[i]
                 IN  (IF dir[t].kind = "absent" THEN <<>>
                      ELSE IF ReadRaises(dir[t]) THEN <<<<name, t>>, <<name, t>>>>
                      ELSE <<<<name, t>>>>)
                     \o from[i + 1]
    IN  from[1]

\* the pd.read_csv calls of one loader, in the order of its loop: one for
\* each expected file that exists, whether the call raises or not
files_read(name, dir) ==
    LET from[i \in 1 .. (Len(TableOrder) + 1)] ==
            IF i > Len(TableOrder) THEN <<>>
            ELSE LET t == TableOrder[i]
                 IN  (IF dir[t].kind = "absent" THEN <<>> ELSE <<<<name, t>>>>)
                     \o from[i + 1]
    IN  from[1]

(***************************************************************************)
(* extract_from_kaggle                                                     *)
(***************************************************************************)
missing_files_AbsentOnly(dir) == {t \in Tables : dir[t].kind = "absent"}

\* missing_files: the expected files that are absent or failed to load
missing_files(dir) == {t \in Tables : dir[t].kind = "absent" \/ ReadRaises(dir[t])}

\* the local dict datasets before the missing_files check: the files that
\* exist and were read
loaded_files(dir) ==
    [t \in {u \in Tables : dir[u].kind # "absent" /\ ~ReadRaises(dir[u])}
        |-> read_csv(dir[t], "raw")]

extract_from_kaggle_Partial(dir) == loaded_files(dir)

extract_from_kaggle(dir) ==
    IF missing_files(dir) # {} THEN None ELSE loaded_files(dir)

(***************************************************************************)
(* sample stage                                                            *)
(***************************************************************************)
load_existing_sample_data_KeepRaw(dir) ==
    LET kept == loaded_files(raw)
        read == {u \in Tables : dir[u].kind # "absent" /\ ~ReadRaises(dir[u])}
    IN  [t \in read \cup DOMAIN kept |->
            IF t \in read THEN read_csv(dir[t], "sample") ELSE kept[t]]

\* _load_existing_sample_data: every expected file that exists and parses
load_existing_sample_data(dir) ==
    [t \in {u \in Tables : dir[u].kind # "absent" /\ ~ReadRaises(dir[u])}
        |-> read_csv(dir[t], "sample")]

generate_sample_datasets_NoCap(items, delivered) ==
    [t \in Tables |->
        CASE t = "customers"   -> Frame(num_customers, 5, 0, "generated")
          [] t = "products"    -> Frame(num_products, 9, 0, "generated")
          [] t = "sellers"     -> Frame(num_sellers, 4, 0, "generated")
          [] t = "orders"      -> Frame(num_orders, 8, 0, "generated")
          [] t = "order_items" -> Frame(items, 7, 0, "generated")
          [] t = "reviews"     -> Frame(delivered, 7, delivered, "generated")]

\* _generate_sample_datasets; items: the sum of the per-order item counts,
\* delivered: the number of orders whose status was drawn as delivered
generate_sample_datasets(items, delivered) ==
    LET reviews == IF delivered < max_reviews THEN delivered ELSE max_reviews
    IN  [t \in Tables |->
            CASE t = "customers"   -> Frame(num_customers, 5, 0, "generated")
              [] t = "products"    -> Frame(num_products, 9, 0, "generated")
              [] t = "sellers"     -> Frame(num_sellers, 4, 0, "generated")
              [] t = "orders"      -> Frame(num_orders, 8, 0, "generated")
              [] t = "order_items" -> Frame(items, 7, 0, "generated")
              [] t = "reviews"     ->
                    IF reviews = 0 THEN Frame(0, 0, 0, "generated")
                    ELSE Frame(reviews, 7, reviews, "generated")]

save_sample_data_NoReviews(dir, ds, failed) ==
    [t \in Tables |->
        IF t \notin DOMAIN ds \/ t \in failed \/ t = "reviews" THEN dir[t]
        ELSE to_csv(ds[t])]

\* _save_sample_data: one file per table; a to_csv that raises (failed) is
\* logged and skipped, and writes nothing
save_sample_data(dir, ds, failed) ==
    [t \in Tables |->
        IF t \notin DOMAIN ds \/ t \in failed THEN dir[t]
        ELSE to_csv(ds[t])]

(***************************************************************************)
(* extract_from_api                                                        *)
(***************************************************************************)
extract_from_api_EmptyDict == [t \in {} |-> NoneValue]

extract_from_api == None

(***************************************************************************)
(* validate_extracted_data                                                 *)
(***************************************************************************)
\* df.empty
IsEmpty(df) == df.rows = 0 \/ df.cols = 0

Rejection_RowsAtMost(df) ==
    CASE df.kind = "none"         -> "Dataset is empty"
      [] df.kind = "object"       -> "Validation error"
      [] IsEmpty(df)              -> "Dataset is empty"
      [] df.cols < min_columns    -> "Dataset has too few columns"
      [] df.rows <= min_rows      -> "Dataset has too few rows"
      [] OTHER                    -> ""

\* the reason for which one dict value is rejected, "" if it is kept; a
\* value that is no DataFrame raises inside the per-table try
Rejection(df) ==
    CASE df.kind = "none"         -> "Dataset is empty"
      [] df.kind = "object"       -> "Validation error"
      [] IsEmpty(df)              -> "Dataset is empty"
      [] df.cols < min_columns    -> "Dataset has too few columns"
      [] df.rows < min_rows       -> "Dataset has too few rows"
      [] OTHER                    -> ""

WithAttrs_SourceOfFrame(name, df) ==
    [df EXCEPT !.attrs = [stamped |-> TRUE, source_name |-> df.src,
                          null_percentage |-> Percentage(df.nulls, df.rows * df.cols)]]

\* the metadata attached to a frame that passed
WithAttrs(name, df) ==
    [df EXCEPT !.attrs = [stamped |-> TRUE, source_name |-> name,
                          null_percentage |-> Percentage(df.nulls, df.rows * df.cols)]]

validated_datasets_StopAtFirst(ds) ==
    LET pos(k) == CHOOSE i \in 1 .. Len(TableOrder) : TableOrder[i] = k
    IN  [n \in {k \in DOMAIN ds :
                  \A j \in DOMAIN ds : pos(j) <= pos(k) => Rejection(ds[j]) = ""}
            |-> WithAttrs(n, ds[n])]

\* validated_datasets
validated_datasets(ds) ==
    [n \in {k \in DOMAIN ds : Rejection(ds[k]) = ""} |-> WithAttrs(n, ds[n])]

\* validation_errors, as <<name, reason>> pairs
RECURSIVE ErrorsFrom(_, _)
ErrorsFrom(ds, keys) ==
    IF keys = <<>> THEN <<>>
    ELSE LET n == Head(keys)
             r == Rejection(ds[n])
         IN  (IF r = "" THEN <<>> ELSE <<<<n, r>>>>)
             \o ErrorsFrom(ds, Tail(keys))

validation_errors_WithoutRaised(ds) ==
    IF ds = None THEN <<>>
    ELSE SelectSeq(ErrorsFrom(ds, Keys(ds)), LAMBDA e : e[2] # "Validation error")

validation_errors(ds) == IF ds = None THEN <<>> ELSE ErrorsFrom(ds, Keys(ds))

validate_extracted_data_ReturnsInput(ds) == ds

validate_extracted_data_NoInnerTry(ds) ==
    IF ds = None \/ \E n \in DOMAIN ds : ds[n].kind = "object" THEN ds
    ELSE validated_datasets(ds)

\* the return value; an argument that is no dict (None) raises at
\* datasets.items() and is returned as it is by the outer except
validate_extracted_data(ds) ==
    IF ds = None THEN ds ELSE validated_datasets(ds)

after_validation_DropsNullRows(ds) ==
    IF ds = None THEN ds
    ELSE [n \in DOMAIN ds |->
            IF Rejection(ds[n]) = ""
            THEN WithAttrs(n, [ds[n] EXCEPT !.rows = ds[n].rows - ds[n].nulls \div ds[n].cols,
                                            !.nulls = 0])
            ELSE ds[n]]

\* the argument after the call: attrs are set in place on the frames kept
after_validation(ds) ==
    IF ds = None THEN ds
    ELSE [n \in DOMAIN ds |-> IF Rejection(ds[n]) = "" THEN WithAttrs(n, ds[n]) ELSE ds[n]]

(***************************************************************************)
(* Initial states                                                          *)
(***************************************************************************)
\* a file as somebody may have put it into a data directory
GoodCsv == Csv(min_rows, min_columns, 0)
ShortCsv == Csv(min_rows - 1, min_columns, 0)
DefectKinds == {Bad, ShortCsv}

\* a directory with the files of present, those of defects defective
Directory(name, present, defects) ==
    [t \in Tables |->
        IF t \notin present THEN Absent
        ELSE IF \E d \in defects : d[1] = name /\ d[2] = t
             THEN (CHOOSE d \in defects : d[1] = name /\ d[2] = t)[3]
             ELSE GoodCsv]

\* the files present at the start: every subset of the expected files in
\* one directory, with the other directory empty or complete
PresentFiles ==
    ((SUBSET Tables) \X {{}, Tables}) \cup ({{}, Tables} \X (SUBSET Tables))

\* the parts of the state that a call of extract_data does not use:
\* the extractor as constructed, with no extract_from_url call in progress
NoUrlCall ==
    /\ retry_attempts = default_retry_attempts
    /\ attempt = 0
    /\ file_type = "csv"
    /\ slept = 0
\* no archive at hand
NoArchive == archive = Absent
\* no pipeline run in progress
NoPipelineRun ==
    /\ raw_data = Pending
    /\ transformed_data = Pending
    /\ success = Pending
    /\ exit_status = Pending
\* the pseudo-random generators as the interpreter started them, and no
\* row-level generator run on record
NoGeneratorRun ==
    /\ np_random = [a |-> 1, x |-> 0]
    /\ py_random = [a |-> 1, x |-> 0]
    /\ generated = <<>>
\* no dashboard process: nothing cached, no browser session has run a script
NoDashboardSession ==
    /\ extractor_class = "DataExtractor"
    /\ cache = NoEntry
    /\ session_state = [s \in Sessions |-> NoDatasetsKey]
    /\ returned = [s \in Sessions |-> Pending]
    /\ shown = [s \in Sessions |-> "nothing"]

\* __init__ creates the two directories if needed; the files in them are
\* whatever was put there before.  An unrelated *.csv in data/sample is
\* read only through the truth value of sample_files, so it is enumerated
\* only where it decides that value: with no expected sample file present.
Init ==
    /\ \E P \in PresentFiles :
          /\ \E D \in SubsetsUpTo((({"raw"} \X P[1]) \cup ({"sample"} \X P[2])) \X DefectKinds,
                                  MaxDefects) :
                /\ \A d, e \in D : d[1] = e[1] => d = e
                /\ raw = Directory("raw", P[1], {<<d[1][1], d[1][2], d[2]>> : d \in D})
                /\ sample = Directory("sample", P[2], {<<d[1][1], d[1][2], d[2]>> : d \in D})
          /\ sampleOther \in (IF P[2] = {} THEN BOOLEAN ELSE {FALSE})
    /\ sampleAtCall = sample
    /\ pc = "idle"
    /\ datasets = None
    /\ result = Pending
    /\ errors = <<>>
    /\ trace = <<>>
    /\ saveFailed = {}
    /\ reads = <<>>
    /\ persisted = FALSE
    /\ NoUrlCall /\ NoArchive /\ NoPipelineRun /\ NoGeneratorRun /\ NoDashboardSession

(***************************************************************************)
(* extract_data                                                            *)
(***************************************************************************)
\* the caller invokes extract_data, for the first time or again
\* (lines 49-53)
Call ==
    /\ pc \in {"idle", "done"}
    /\ pc' = "kaggle"
    /\ datasets' = None
    /\ result' = Pending
    /\ errors' = <<>>
    /\ trace' = <<>>
    /\ sampleAtCall' = sample
    /\ saveFailed' = {}
    /\ reads' = <<>>
    /\ UNCHANGED persisted
    /\ UNCHANGED <<raw, sample, sampleOther, urlVars, archive, pipelineVars, generatorVars, dashboardVars>>

TryRaw_NoCheck ==
    /\ pc = "kaggle"
    /\ datasets' = extract_from_kaggle(raw)
    /\ reads' = reads \o files_read("raw", raw)
    /\ trace' = Append(trace, "raw")
    /\ pc' = "sample"
    /\ UNCHANGED <<raw, sample, sampleOther, sampleAtCall, result, errors, saveFailed, persisted>>
    /\ UNCHANGED <<urlVars, archive, pipelineVars, generatorVars, dashboardVars>>

\* datasets = self.extract_from_kaggle(); if datasets is None (lines 55-58)
TryRaw ==
    /\ pc = "kaggle"
    /\ datasets' = extract_from_kaggle(raw)
    /\ reads' = reads \o files_read("raw", raw)
    /\ trace' = Append(trace, "raw")
    /\ pc' = IF datasets' = None THEN "sample" ELSE "check"
    /\ UNCHANGED <<raw, sample, sampleOther, sampleAtCall, result, errors, saveFailed, persisted>>
    /\ UNCHANGED <<urlVars, archive, pipelineVars, generatorVars, dashboardVars>>

sample_files_ExpectedOnly == {t \in Tables : sample[t].kind # "absent"}

sample_files_Complete ==
    IF \A t \in Tables : sample[t].kind # "absent" THEN Tables ELSE {}

\* sample_files = list(self.sample_data_dir.glob("*.csv"))
sample_files ==
    {t \in Tables : sample[t].kind # "absent"} \cup (IF sampleOther THEN {"other"} ELSE {})

\* the outcomes of the random draws of one generator run
ItemCounts == {min_items_per_order * num_orders, max_items_per_order * num_orders}
DeliveredCounts == {(num_orders * 7) \div 10}

\* datasets = self.extract_sample_data(); if datasets is None (lines 58-63,
\* 129-155).  raises: the generator raises, which the stage's except turns
\* into None
SampleStage ==
    /\ pc = "sample"
    /\ \/ /\ sample_files # {}
          /\ datasets' = load_existing_sample_data(sample)
          /\ reads' = reads \o files_read("sample", sample)
          /\ trace' = trace \o <<"sample", "load">>
          /\ UNCHANGED <<sample, saveFailed, persisted>>
       \/ /\ sample_files = {}
          /\ \E raises \in BOOLEAN :
                \/ /\ raises
                   /\ datasets' = None
                   /\ trace' = trace \o <<"sample", "generate", "raise">>
                   /\ UNCHANGED <<sample, saveFailed, reads, persisted>>
                \/ /\ ~raises
                   /\ \E items \in ItemCounts, delivered \in DeliveredCounts,
                         failed \in SubsetsUpTo(Tables, MaxSaveFailures) :
                         /\ datasets' = generate_sample_datasets(items, delivered)
                         /\ sample' = save_sample_data(sample, datasets', failed)
                         /\ saveFailed' = failed
                         /\ persisted' = (persisted \/ failed = {})
                   /\ UNCHANGED reads
                   /\ trace' = trace \o <<"sample", "generate", "save">>
    /\ pc' = IF datasets' = None THEN "api" ELSE "check"
    /\ UNCHANGED <<raw, sampleOther, sampleAtCall, result, errors>>
    /\ UNCHANGED <<urlVars, archive, pipelineVars, generatorVars, dashboardVars>>

ApiStage_Retry ==
    /\ pc = "api"
    /\ datasets' = extract_from_api
    /\ trace' = Append(trace, "api")
    /\ pc' = IF datasets' = None THEN "kaggle" ELSE "check"
    /\ UNCHANGED <<raw, sample, sampleOther, sampleAtCall, result, errors, saveFailed, reads, persisted>>
    /\ UNCHANGED <<urlVars, archive, pipelineVars, generatorVars, dashboardVars>>

\* datasets = self.extract_from_api() (lines 63-66)
ApiStage ==
    /\ pc = "api"
    /\ datasets' = extract_from_api
    /\ trace' = Append(trace, "api")
    /\ pc' = "check"
    /\ UNCHANGED <<raw, sample, sampleOther, sampleAtCall, result, errors, saveFailed, reads, persisted>>
    /\ UNCHANGED <<urlVars, archive, pipelineVars, generatorVars, dashboardVars>>

\* if datasets is None: return None (lines 68-70)
ReturnFailure ==
    /\ pc = "check"
    /\ datasets = None
    /\ result' = None
    /\ pc' = "done"
    /\ UNCHANGED <<raw, sample, sampleOther, sampleAtCall, datasets, errors, trace, saveFailed, reads, persisted>>
    /\ UNCHANGED <<urlVars, archive, pipelineVars, generatorVars, dashboardVars>>

\* validated_datasets = self.validate_extracted_data(datasets);
\* return validated_datasets (lines 72-76)
Validate ==
    /\ pc = "check"
    /\ datasets # None
    /\ result' = validate_extracted_data(datasets)
    /\ errors' = validation_errors(datasets)
    /\ datasets' = after_validation(datasets)
    /\ trace' = Append(trace, "validate")
    /\ pc' = "done"
    /\ UNCHANGED <<raw, sample, sampleOther, sampleAtCall, saveFailed, reads, persisted>>
    /\ UNCHANGED <<urlVars, archive, pipelineVars, generatorVars, dashboardVars>>

Next ==
    \/ Call
    \/ TryRaw
    \/ SampleStage
    \/ ApiStage
    \/ ReturnFailure
    \/ Validate

Spec == Init /\ [][Next]_vars

(***************************************************************************)
(* validate_extracted_data called directly                                 *)
(***************************************************************************)
RowCounts == {0} \cup ((min_rows - 1) .. (min_rows + MaxExtraRows))
ColumnCounts == 0 .. (min_columns + MaxExtraColumns)

\* a frame of 100 cells of which 25 are null
QuarterNullFrame == Frame(50, 2, 25, "caller")

\* the values a caller may put into the dict
InputValues ==
    {NoneValue, NotAFrame}
    \cup {Frame(r, c, 0, "caller") : r \in RowCounts, c \in ColumnCounts}
    \cup {Frame(r, c, r, "caller") : r \in RowCounts, c \in ColumnCounts \ {0}}
    \cup {QuarterNullFrame}

InputKeys == {TableOrder[i] : i \in 1 .. MaxValidateKeys}

InputDicts == UNION {[K -> InputValues] : K \in SUBSET InputKeys}

InitValidate ==
    /\ raw = [t \in Tables |-> Absent]
    /\ sample = [t \in Tables |-> Absent]
    /\ sampleOther = FALSE
    /\ sampleAtCall = sample
    /\ pc = "caller"
    /\ datasets \in InputDicts \cup {None}
    /\ result = Pending
    /\ errors = <<>>
    /\ trace = <<>>
    /\ saveFailed = {}
    /\ reads = <<>>
    /\ persisted = FALSE
    /\ NoUrlCall /\ NoArchive /\ NoPipelineRun /\ NoGeneratorRun /\ NoDashboardSession

\* validate_extracted_data(datasets) (lines 250-308)
ValidateCall ==
    /\ pc = "caller"
    /\ result' = validate_extracted_data(datasets)
    /\ errors' = validation_errors(datasets)
    /\ datasets' = after_validation(datasets)
    /\ trace' = Append(trace, "validate")
    /\ pc' = "returned"
    /\ UNCHANGED <<raw, sample, sampleOther, sampleAtCall, saveFailed, reads, persisted>>
    /\ UNCHANGED <<urlVars, archive, pipelineVars, generatorVars, dashboardVars>>

NextValidate == ValidateCall

SpecValidate == InitValidate /\ [][NextValidate]_vars

(***************************************************************************)
(* extract_from_url                                                        *)
(***************************************************************************)
\* the values of the argument file_type: the supported ones, one in upper
\* case and an unsupported one
FileTypes == {"csv", "CSV", "json", "xlsx", "excel", "xml"}

\* file_type.lower()
Lower(ft) == IF ft = "CSV" THEN "csv" ELSE ft

\* how one pass through the try block ends: requests.get raises, or
\* raise_for_status raises, or the reader of the file type raises or returns
\* a frame; an unsupported file type raises ValueError instead of reading
AttemptOutcomes(ft) ==
    {"timeout", "http_error"}
    \cup (IF Lower(ft) \in {"csv", "json", "xlsx", "excel"}
          THEN {"parse_error", "ok"}
          ELSE {"unsupported"})

\* the frame a successful download yields
UrlFrame == Frame(min_rows, min_columns, 0, "url")

\* extract_from_url(url, file_type) has been called on an extractor whose
\* retry_attempts came from RETRY_ATTEMPTS or its default
InitUrl ==
    /\ raw = [t \in Tables |-> Absent]
    /\ sample = [t \in Tables |-> Absent]
    /\ sampleOther = FALSE
    /\ sampleAtCall = sample
    /\ pc = "url_for"
    /\ datasets = None
    /\ result = Pending
    /\ errors = <<>>
    /\ trace = <<>>
    /\ saveFailed = {}
    /\ reads = <<>>
    /\ persisted = FALSE
    /\ retry_attempts \in (-1 .. MaxAttempts) \cup {default_retry_attempts}
    /\ attempt = 0
    /\ file_type \in FileTypes
    /\ slept = 0
    /\ NoArchive /\ NoPipelineRun /\ NoGeneratorRun /\ NoDashboardSession

\* for attempt in range(self.retry_attempts) (line 183); when the range is
\* exhausted the function ends without a return statement and yields None
UrlFor ==
    /\ pc = "url_for"
    /\ IF attempt < retry_attempts
         THEN pc' = "url_try" /\ UNCHANGED result
         ELSE pc' = "url_returned" /\ result' = None
    /\ UNCHANGED <<raw, sample, sampleOther, sampleAtCall, datasets, errors, trace, saveFailed, reads, persisted>>
    /\ UNCHANGED <<urlVars, archive, pipelineVars, generatorVars, dashboardVars>>

UrlTry_GiveUpEarly ==
    /\ pc = "url_try"
    /\ \E outcome \in AttemptOutcomes(file_type) :
          IF outcome = "ok"
          THEN /\ trace' = trace \o <<"attempt", outcome>>
               /\ result' = UrlFrame
               /\ pc' = "url_returned"
               /\ UNCHANGED <<attempt, slept>>
          ELSE IF attempt < retry_attempts - 2
          THEN /\ trace' = trace \o <<"attempt", outcome, "sleep">>
               /\ slept' = slept + retry_delay
               /\ attempt' = attempt + 1
               /\ pc' = "url_for"
               /\ UNCHANGED result
          ELSE /\ trace' = trace \o <<"attempt", outcome>>
               /\ result' = None
               /\ pc' = "url_returned"
               /\ UNCHANGED <<attempt, slept>>
    /\ UNCHANGED <<raw, sample, sampleOther, sampleAtCall, datasets, errors, saveFailed, reads, persisted>>
    /\ UNCHANGED <<retry_attempts, file_type, archive, pipelineVars, generatorVars, dashboardVars>>

UrlTry_SleepAlways ==
    /\ pc = "url_try"
    /\ \E outcome \in AttemptOutcomes(file_type) :
          IF outcome = "ok"
          THEN /\ trace' = trace \o <<"attempt", outcome>>
               /\ result' = UrlFrame
               /\ pc' = "url_returned"
               /\ UNCHANGED <<attempt, slept>>
          ELSE /\ trace' = trace \o <<"attempt", outcome, "sleep">>
               /\ slept' = slept + retry_delay
               /\ attempt' = attempt + 1
               /\ pc' = "url_for"
               /\ UNCHANGED result
    /\ UNCHANGED <<raw, sample, sampleOther, sampleAtCall, datasets, errors, saveFailed, reads, persisted>>
    /\ UNCHANGED <<retry_attempts, file_type, archive, pipelineVars, generatorVars, dashboardVars>>

\* one pass through the loop body (lines 184-208): the try block, and after
\* a failure either the sleep before the next pass or, on the last pass,
\* return None
UrlTry ==
    /\ pc = "url_try"
    /\ \E outcome \in AttemptOutcomes(file_type) :
          IF outcome = "ok"
          THEN /\ trace' = trace \o <<"attempt", outcome>>
               /\ result' = UrlFrame
               /\ pc' = "url_returned"
               /\ UNCHANGED <<attempt, slept>>
          ELSE IF attempt < retry_attempts - 1
          THEN /\ trace' = trace \o <<"attempt", outcome, "sleep">>
               /\ slept' = slept + retry_delay
               /\ attempt' = attempt + 1
               /\ pc' = "url_for"
               /\ UNCHANGED result
          ELSE /\ trace' = trace \o <<"attempt", outcome>>
               /\ result' = None
               /\ pc' = "url_returned"
               /\ UNCHANGED <<attempt, slept>>
    /\ UNCHANGED <<raw, sample, sampleOther, sampleAtCall, datasets, errors, saveFailed, reads, persisted>>
    /\ UNCHANGED <<retry_attempts, file_type, archive, pipelineVars, generatorVars, dashboardVars>>

NextUrl ==
    \/ UrlFor
    \/ UrlTry

SpecUrl == InitUrl /\ [][NextUrl]_vars

(***************************************************************************)
(* extract_from_zip                                                        *)
(***************************************************************************)
\* a member of an archive that is no .csv file
OtherFile == [kind |-> "other"]

\* the stems of the member names
MemberNames == {TableOrder[i] : i \in 1 .. MaxZipMembers}

\* the file at zip_path: missing, no ZIP archive, or an archive whose
\* members are readable CSV files, unparsable CSV files or other files
Archives ==
    {Absent, Bad}
    \cup {[kind |-> "zip", members |-> m] :
            m \in UNION {[K -> {GoodCsv, Bad, OtherFile}] : K \in SUBSET MemberNames}}

\* csv_files = [f for f in zip_ref.namelist() if f.endswith('.csv')]
csv_files(a) == {k \in DOMAIN a.members : a.members[k].kind # "other"}

\* the return value of extract_from_zip: None if zipfile.ZipFile raises,
\* else the members that pd.read_csv could read, or None if there are none
extract_from_zip(a) ==
    IF a.kind # "zip" THEN None
    ELSE LET read == {k \in csv_files(a) : ~ReadRaises(a.members[k])}
         IN  IF read = {} THEN None
             ELSE [k \in read |-> read_csv(a.members[k], "zip")]

\* extract_from_zip(zip_path) has been called
InitZip ==
    /\ raw = [t \in Tables |-> Absent]
    /\ sample = [t \in Tables |-> Absent]
    /\ sampleOther = FALSE
    /\ sampleAtCall = sample
    /\ pc = "zip_call"
    /\ datasets = None
    /\ result = Pending
    /\ errors = <<>>
    /\ trace = <<>>
    /\ saveFailed = {}
    /\ reads = <<>>
    /\ persisted = FALSE
    /\ retry_attempts \in (-1 .. MaxAttempts) \cup {default_retry_attempts}
    /\ attempt = 0
    /\ file_type = "csv"
    /\ slept = 0
    /\ archive \in Archives
    /\ NoPipelineRun /\ NoGeneratorRun /\ NoDashboardSession

ExtractZip_Retry ==
    /\ pc = "zip_call"
    /\ result' = extract_from_zip(archive)
    /\ IF archive.kind # "zip" /\ retry_attempts > 1
         THEN /\ trace' = <<"open", "sleep", "open">>
              /\ slept' = slept + retry_delay
         ELSE /\ trace' = <<"open">>
              /\ UNCHANGED slept
    /\ pc' = "zip_returned"
    /\ UNCHANGED <<raw, sample, sampleOther, sampleAtCall, datasets, errors, saveFailed, reads, persisted>>
    /\ UNCHANGED <<retry_attempts, attempt, file_type, archive, pipelineVars, generatorVars, dashboardVars>>

\* the whole of extract_from_zip (lines 220-248): one zipfile.ZipFile call,
\* no loop over attempts and no sleep
ExtractZip ==
    /\ pc = "zip_call"
    /\ result' = extract_from_zip(archive)
    /\ trace' = <<"open">>
    /\ pc' = "zip_returned"
    /\ UNCHANGED <<raw, sample, sampleOther, sampleAtCall, datasets, errors, saveFailed, reads, persisted>>
    /\ UNCHANGED <<urlVars, archive, pipelineVars, generatorVars, dashboardVars>>

NextZip == ExtractZip

SpecZip == InitZip /\ [][NextZip]_vars

(***************************************************************************)
(* ETLPipeline.run_full_pipeline and main (src/src/main.py)                *)
(***************************************************************************)
\* a value that run_full_pipeline returned
Returned(b) == [value |-> b]
\* the status with which the process ended
Exit(code) == [code |-> code]

\* what self.extractor.extract_data() may return: None, or a validated
\* collection with any of the six tables
ExtractResults ==
    {None} \cup {[t \in K |-> WithAttrs(t, Frame(min_rows, min_columns, 0, "raw"))] :
                    K \in SUBSET Tables}

\* how a call of self.transformer.transform_data(raw_data) may end: it
\* raises, returns None, or returns an object, which has a len() or not
TransformOutcomes == {"raise", "none", "sized", "unsized"}

\* how a call of self.loader.load_data(transformed_data) may end: it
\* raises or returns a true or a false value
LoadOutcomes == {"raise", "true", "false"}

\* main has constructed the pipeline and calls run_full_pipeline
InitPipeline ==
    /\ raw = [t \in Tables |-> Absent]
    /\ sample = [t \in Tables |-> Absent]
    /\ sampleOther = FALSE
    /\ sampleAtCall = sample
    /\ pc = "step1"
    /\ datasets = None
    /\ result = Pending
    /\ errors = <<>>
    /\ trace = <<>>
    /\ saveFailed = {}
    /\ reads = <<>>
    /\ persisted = FALSE
    /\ NoUrlCall /\ NoArchive /\ NoPipelineRun /\ NoGeneratorRun /\ NoDashboardSession

RunExtract_NoCheck ==
    /\ pc = "step1"
    /\ \E r \in ExtractResults : raw_data' = r
    /\ trace' = Append(trace, "extract")
    /\ pc' = "step2"
    /\ UNCHANGED <<transformed_data, success, exit_status>>
    /\ UNCHANGED <<raw, sample, sampleOther, sampleAtCall, datasets, result, errors, saveFailed, reads, persisted>>
    /\ UNCHANGED <<urlVars, archive, generatorVars, dashboardVars>>

\* Step 1 (lines 43-48): extract_data is called; None raises, and the
\* except clause (lines 69-71) returns False
RunExtract ==
    /\ pc = "step1"
    /\ \E r \in ExtractResults : raw_data' = r
    /\ trace' = Append(trace, "extract")
    /\ IF raw_data' = None
         THEN success' = Returned(FALSE) /\ pc' = "main"
         ELSE pc' = "step2" /\ UNCHANGED success
    /\ UNCHANGED <<transformed_data, exit_status>>
    /\ UNCHANGED <<raw, sample, sampleOther, sampleAtCall, datasets, result, errors, saveFailed, reads, persisted>>
    /\ UNCHANGED <<urlVars, archive, generatorVars, dashboardVars>>

\* Step 2 (lines 52-57): transform_data is called; an exception, None, or
\* a value without len() ends the run with False
RunTransform ==
    /\ pc = "step2"
    /\ trace' = Append(trace, "transform")
    /\ \E o \in TransformOutcomes :
          /\ transformed_data' =
                CASE o = "raise" -> transformed_data
                  [] o = "none" -> None
                  [] OTHER -> [tables |-> DOMAIN raw_data, sized |-> (o = "sized")]
          /\ IF o = "sized"
               THEN pc' = "step3" /\ UNCHANGED success
               ELSE success' = Returned(FALSE) /\ pc' = "main"
    /\ UNCHANGED <<raw_data, exit_status>>
    /\ UNCHANGED <<raw, sample, sampleOther, sampleAtCall, datasets, result, errors, saveFailed, reads, persisted>>
    /\ UNCHANGED <<urlVars, archive, generatorVars, dashboardVars>>

\* Step 3 (lines 61-67): load_data is called; run_full_pipeline returns
\* True if it returned a true value, False otherwise
RunLoad ==
    /\ pc = "step3"
    /\ trace' = Append(trace, "load")
    /\ \E o \in LoadOutcomes : success' = Returned(o = "true")
    /\ pc' = "main"
    /\ UNCHANGED <<raw_data, transformed_data, exit_status>>
    /\ UNCHANGED <<raw, sample, sampleOther, sampleAtCall, datasets, result, errors, saveFailed, reads, persisted>>
    /\ UNCHANGED <<urlVars, archive, generatorVars, dashboardVars>>

\* main after run_full_pipeline returned (lines 93-100): run_sql_analysis,
\* which catches its own exceptions, and a normal end of the process; or
\* sys.exit(1)
MainBranch ==
    /\ pc = "main"
    /\ IF success = Returned(TRUE)
         THEN /\ trace' = Append(trace, "sql_analysis")
              /\ exit_status' = Exit(0)
         ELSE /\ trace' = Append(trace, "exit")
              /\ exit_status' = Exit(1)
    /\ pc' = "exited"
    /\ UNCHANGED <<raw_data, transformed_data, success>>
    /\ UNCHANGED <<raw, sample, sampleOther, sampleAtCall, datasets, result, errors, saveFailed, reads, persisted>>
    /\ UNCHANGED <<urlVars, archive, generatorVars, dashboardVars>>

NextPipeline ==
    \/ RunExtract
    \/ RunTransform
    \/ RunLoad
    \/ MainBranch

SpecPipeline == InitPipeline /\ [][NextPipeline]_vars

(***************************************************************************)
(* The synthetic generators at row level: _generate_sample_datasets        *)
(* (extract.py) and generate_sample_ecommerce_data (dataset_generator.py). *)
(* A pseudo-random generator is a deterministic state machine: seeding     *)
(* sets its state, every draw advances it, and the value drawn is a        *)
(* function of the state.  Which function it is depends on the library;    *)
(* the model takes a linear congruential step whose multiplier a is fixed  *)
(* for the life of the process.                                            *)
(***************************************************************************)
\* seed(s)
Seeded(rng, s) == [rng EXCEPT !.x = s % RngModulus]

\* the state after one draw
Advance(rng) == [rng EXCEPT !.x = (rng.a * rng.x + 1) % RngModulus]

\* the value of the draw that led to state rng, uniform over
\* low .. low + size - 1 (randint(low, low + size), choice of size items)
Drawn(rng, low, size) == low + (rng.x % size)

\* a vector draw of n values (np.random.randint(low, high, n),
\* np.random.choice(items, n))
RECURSIVE DrawVector(_, _, _, _)
DrawVector(rng, n, low, size) ==
    IF n = 0 THEN [vals |-> <<>>, rng |-> rng]
    ELSE LET r1 == Advance(rng)
             rest == DrawVector(r1, n - 1, low, size)
         IN  [vals |-> <<Drawn(r1, low, size)>> \o rest.vals, rng |-> rest.rng]

\* the drawn columns of a table of n rows, column by column in the order
\* of the dict literal; ranges: <<low, size>> of each column
RECURSIVE DrawColumns(_, _, _)
DrawColumns(rng, n, ranges) ==
    IF ranges = <<>> THEN [cols |-> <<>>, rng |-> rng]
    ELSE LET c == DrawVector(rng, n, Head(ranges)[1], Head(ranges)[2])
             rest == DrawColumns(c.rng, n, Tail(ranges))
         IN  [cols |-> <<c.vals>> \o rest.cols, rng |-> rest.rng]

\* pd.DataFrame({id column, drawn columns}): ids 1 .. n
IdTable(n, drawn) ==
    [i \in 1 .. n |-> [id |-> i, values |-> [c \in 1 .. Len(drawn.cols) |-> drawn.cols[c][i]]]]

\* a table size of the source in the row-level model, at least one row
Scaled(n, k) == IF n \div k = 0 THEN 1 ELSE n \div k

\* the two generators: table sizes (scaled down), the ranges of
\* the drawn columns, and the draws per loop pass
ExtractorGenerator ==
    [name |-> "_generate_sample_datasets",
     num_customers |-> Scaled(num_customers, ScaleDown),
     num_products |-> Scaled(num_products, ScaleDown),
     num_sellers |-> Scaled(num_sellers, ScaleDown),
     num_orders |-> Scaled(num_orders, ScaleDown),
     customer_columns |-> <<<<10000, 89999>>, <<0, 7>>, <<0, 7>>>>,
     product_columns |-> <<<<0, 7>>, <<20, 60>>, <<100, 400>>, <<1, 9>>, <<50, 4950>>,
                           <<5, 45>>, <<2, 28>>, <<5, 35>>>>,
     seller_columns |-> <<<<10000, 89999>>, <<0, 4>>, <<0, 4>>>>,
     order_date_days |-> 366,
     order_py_draws |-> 5,
     delivered_date_draw |-> 0,
     columns |-> [customers |-> 5, products |-> 9, sellers |-> 4, orders |-> 8,
                  order_items |-> 7, reviews |-> 7],
     saves |-> FALSE,
     max_items |-> max_items_per_order,
     item_py_draws |-> 1,
     review_delay_days |-> 8]

ScriptGenerator ==
    [name |-> "generate_sample_ecommerce_data",
     num_customers |-> Scaled(script_num_customers, ScriptScaleDown),
     num_products |-> Scaled(script_num_products, ScriptScaleDown),
     num_sellers |-> Scaled(script_num_sellers, ScriptScaleDown),
     num_orders |-> Scaled(script_num_orders, ScriptScaleDown),
     customer_columns |-> <<<<0, 10>>, <<0, 10>>, <<10000, 89999>>>>,
     product_columns |-> <<<<0, 10>>, <<20, 60>>, <<100, 400>>, <<50, 4950>>,
                           <<5, 45>>, <<2, 28>>, <<5, 35>>>>,
     seller_columns |-> <<<<0, 10>>, <<0, 10>>, <<10000, 89999>>>>,
     order_date_days |-> 1096,
     order_py_draws |-> 4,
     delivered_date_draw |-> 3,
     columns |-> [customers |-> 4, products |-> 8, sellers |-> 4, orders |-> 6,
                  order_items |-> 7, reviews |-> 7],
     saves |-> TRUE,
     max_items |-> script_max_items_per_order,
     item_py_draws |-> 3,
     review_delay_days |-> 11]

\* n draws whose values the model does not keep
RECURSIVE Skip(_, _)
Skip(rng, n) == IF n = 0 THEN rng ELSE Skip(Advance(rng), n - 1)

\* np.random.choice([...], p=[0.7, 0.15, 0.1, 0.05])
order_status(rng) ==
    LET u == Drawn(rng, 0, 20)
    IN  IF u < 14 THEN "delivered"
        ELSE IF u < 17 THEN "shipped"
        ELSE IF u < 19 THEN "processing"
        ELSE "canceled"

\* np.random.choice([1, 2, 3, 4, 5], p=[0.05, 0.1, 0.15, 0.3, 0.4])
review_score(rng) ==
    LET u == Drawn(rng, 0, 20)
    IN  IF u < 1 THEN 1
        ELSE IF u < 3 THEN 2
        ELSE IF u < 6 THEN 3
        ELSE IF u < 12 THEN 4
        ELSE 5

choice_id_OneTooMany(rng, n) == Drawn(rng, 1, n + 1)

\* np.random.choice(table['..._id']) on a table with the ids 1 .. n
choice_id(rng, n) == Drawn(rng, 1, n)

\* the loop that builds the orders: per pass one draw of the date and
\* further draws from random, and from numpy the customer and the status
RECURSIVE GenerateOrders(_, _, _, _, _)
GenerateOrders(cfg, i, np, py, acc) ==
    IF i > cfg.num_orders THEN [rows |-> acc, np |-> np, py |-> py]
    ELSE LET py1 == Advance(py)
             np1 == Advance(np)
             np2 == Advance(np1)
             row == [order_id |-> i,
                     customer_id |-> choice_id(np1, cfg.num_customers),
                     order_status |-> order_status(np2),
                     order_purchase_day |-> Drawn(py1, 0, cfg.order_date_days),
                     delivered_date_missing |->
                        /\ cfg.delivered_date_draw > 0
                        /\ Drawn(Skip(py, cfg.delivered_date_draw), 0, 10) < 2]
         IN  GenerateOrders(cfg, i + 1, np2, Skip(py1, cfg.order_py_draws - 1), Append(acc, row))

\* the inner loop: the items of one order
RECURSIVE GenerateItemsOf(_, _, _, _, _, _, _)
GenerateItemsOf(cfg, order, item, num_items, np, py, acc) ==
    IF item > num_items THEN [rows |-> acc, np |-> np, py |-> py]
    ELSE LET py1 == Advance(py)
             np1 == Advance(np)
             np2 == Advance(np1)
             row == [order_id |-> order.order_id,
                     order_item_id |-> item,
                     product_id |-> choice_id(np1, cfg.num_products),
                     seller_id |-> choice_id(np2, cfg.num_sellers),
                     price |-> Drawn(py1, 10, 490)]
         IN  GenerateItemsOf(cfg, order, item + 1, num_items, np2,
                             Skip(py1, cfg.item_py_draws - 1), Append(acc, row))

\* the outer loop: for order_id in orders['order_id'], with
\* num_items = random.randint(1, max_items)
RECURSIVE GenerateItems(_, _, _, _, _, _)
GenerateItems(cfg, orders, k, np, py, acc) ==
    IF k > Len(orders) THEN [rows |-> acc, np |-> np, py |-> py]
    ELSE LET py1 == Advance(py)
             its == GenerateItemsOf(cfg, orders[k], 1, Drawn(py1, 1, cfg.max_items), np, py1, acc)
         IN  GenerateItems(cfg, orders, k + 1, its.np, its.py, its.rows)

\* a sequence without its element at position i
Without(seq, i) == SubSeq(seq, 1, i - 1) \o SubSeq(seq, i + 1, Len(seq))

SampleWithoutReplacement_Replacing(pool, n, np, acc) ==
    LET d == DrawVector(np, n, 1, Len(pool))
    IN  [vals |-> [i \in 1 .. n |-> pool[d.vals[i]]], np |-> d.rng]

\* Series.sample(n=n): n distinct rows in a drawn order, drawn from the
\* global RandomState of numpy
RECURSIVE SampleWithoutReplacement(_, _, _, _)
SampleWithoutReplacement(pool, n, np, acc) ==
    IF n = 0 THEN [vals |-> acc, np |-> np]
    ELSE LET np1 == Advance(np)
             i == Drawn(np1, 1, Len(pool))
         IN  SampleWithoutReplacement(Without(pool, i), n - 1, np1, Append(acc, pool[i]))

\* n of sample(n=...): min(800, len(delivered_orders)) in extract.py,
\* int(len(delivered_orders) * 0.8) in dataset_generator.py
review_count(cfg, delivered) ==
    IF cfg.name = "_generate_sample_datasets"
    THEN (IF delivered < Scaled(max_reviews, ScaleDown) THEN delivered
          ELSE Scaled(max_reviews, ScaleDown))
    ELSE (delivered * script_review_rate_percent) \div 100

\* the loop that builds the reviews of the sampled orders
RECURSIVE GenerateReviews(_, _, _, _, _, _)
GenerateReviews(cfg, sampled, k, np, py, acc) ==
    IF k > Len(sampled) THEN [rows |-> acc, np |-> np, py |-> py]
    ELSE LET np1 == Advance(np)
             py1 == Advance(py)
             row == [review_id |-> k,
                     order_id |-> sampled[k],
                     review_score |-> review_score(np1),
                     review_delay |-> Drawn(py1, 0, cfg.review_delay_days)]
         IN  GenerateReviews(cfg, sampled, k + 1, np1, py1, Append(acc, row))

IsDelivered(order) == order.order_status = "delivered"

GenerateTables_Unseeded(cfg, np0, py0) ==
    LET customers == DrawColumns(np0, cfg.num_customers, cfg.customer_columns)
        products == DrawColumns(customers.rng, cfg.num_products, cfg.product_columns)
        sellers == DrawColumns(products.rng, cfg.num_sellers, cfg.seller_columns)
        orders == GenerateOrders(cfg, 1, sellers.rng, py0, <<>>)
        items == GenerateItems(cfg, orders.rows, 1, orders.np, orders.py, <<>>)
        delivered == SelectSeq(orders.rows, IsDelivered)
        delivered_orders == [k \in 1 .. Len(delivered) |-> delivered[k].order_id]
        sampled == SampleWithoutReplacement(delivered_orders,
                        review_count(cfg, Len(delivered_orders)), items.np, <<>>)
        reviews == GenerateReviews(cfg, sampled.vals, 1, sampled.np, items.py, <<>>)
    IN  [tables |-> [customers |-> IdTable(cfg.num_customers, customers),
                     products |-> IdTable(cfg.num_products, products),
                     sellers |-> IdTable(cfg.num_sellers, sellers),
                     orders |-> orders.rows,
                     order_items |-> items.rows,
                     reviews |-> reviews.rows],
         np |-> reviews.np,
         py |-> reviews.py]

\* one run of a generator from the states np0, py0 of the two pseudo-random
\* generators: both are seeded first, then the six tables are built in the
\* order customers, products, sellers, orders, order items, reviews
GenerateTables(cfg, np0, py0) ==
    LET np1 == Seeded(np0, generator_seed)
        py1 == Seeded(py0, generator_seed)
        customers == DrawColumns(np1, cfg.num_customers, cfg.customer_columns)
        products == DrawColumns(customers.rng, cfg.num_products, cfg.product_columns)
        sellers == DrawColumns(products.rng, cfg.num_sellers, cfg.seller_columns)
        orders == GenerateOrders(cfg, 1, sellers.rng, py1, <<>>)
        items == GenerateItems(cfg, orders.rows, 1, orders.np, orders.py, <<>>)
        delivered == SelectSeq(orders.rows, IsDelivered)
        delivered_orders == [k \in 1 .. Len(delivered) |-> delivered[k].order_id]
        sampled == SampleWithoutReplacement(delivered_orders,
                        review_count(cfg, Len(delivered_orders)), items.np, <<>>)
        reviews == GenerateReviews(cfg, sampled.vals, 1, sampled.np, items.py, <<>>)
    IN  [tables |-> [customers |-> IdTable(cfg.num_customers, customers),
                     products |-> IdTable(cfg.num_products, products),
                     sellers |-> IdTable(cfg.num_sellers, sellers),
                     orders |-> orders.rows,
                     order_items |-> items.rows,
                     reviews |-> reviews.rows],
         np |-> reviews.np,
         py |-> reviews.py]

\* the null cells of a generated table: review_answer_timestamp is None in
\* every review, and a delivery date that is None (dataset_generator.py
\* line 101) leaves the order's and its review's date empty
null_cells(tables, t) ==
    LET missing == {k \in 1 .. Len(tables.orders) : tables.orders[k].delivered_date_missing}
    IN  CASE t = "orders" -> Cardinality(missing)
          [] t = "reviews" ->
                Len(tables.reviews)
                + Cardinality({k \in 1 .. Len(tables.reviews) :
                                  tables.reviews[k].order_id \in missing})
          [] OTHER -> 0

\* df.to_csv(filepath, index=False) of a generated table
saved_file(cfg, tables, t) ==
    IF Len(tables[t]) = 0 /\ t = "reviews" THEN Csv(0, 0, 0)
    ELSE Csv(Len(tables[t]), cfg.columns[t], null_cells(tables, t))

\* the multipliers a of the pseudo-random step
RngMultipliers == {5, 13}

\* a process in which the generators may run; the two pseudo-random
\* generators are in whatever state the process start left them in
InitGenerator ==
    /\ raw = [t \in Tables |-> Absent]
    /\ sample = [t \in Tables |-> Absent]
    /\ sampleOther = FALSE
    /\ sampleAtCall = sample
    /\ pc = "process"
    /\ datasets = None
    /\ result = Pending
    /\ errors = <<>>
    /\ trace = <<>>
    /\ saveFailed = {}
    /\ reads = <<>>
    /\ persisted = FALSE
    /\ NoUrlCall /\ NoArchive /\ NoPipelineRun /\ NoDashboardSession
    /\ np_random \in [a : RngMultipliers, x : {0, 1}]
    /\ py_random \in [a : RngMultipliers, x : {0, 1}]
    /\ generated = <<>>

\* one call of a generator (extract.py lines 310-425,
\* dataset_generator.py lines 22-143)
RunGenerator ==
    /\ Len(generated) < MaxRuns
    /\ \E cfg \in {ExtractorGenerator, ScriptGenerator} :
          LET run == GenerateTables(cfg, np_random, py_random)
          IN  /\ generated' = Append(generated, [name |-> cfg.name, tables |-> run.tables])
              /\ np_random' = run.np
              /\ py_random' = run.py
              /\ trace' = Append(trace, cfg.name)
              /\ sample' = IF cfg.saves
                            THEN [t \in Tables |-> saved_file(cfg, run.tables, t)]
                            ELSE sample
    /\ UNCHANGED <<raw, sampleOther, sampleAtCall, pc, datasets, result, errors, saveFailed, reads, persisted>>
    /\ UNCHANGED <<urlVars, archive, pipelineVars, dashboardVars>>

\* other code of the process draws from one of the pseudo-random generators
OtherDraw ==
    /\ \E module \in {"np.random", "random"} :
          /\ Count(trace, module) < MaxOtherDraws
          /\ trace' = Append(trace, module)
          /\ IF module = "np.random"
               THEN np_random' = Advance(np_random) /\ UNCHANGED py_random
               ELSE py_random' = Advance(py_random) /\ UNCHANGED np_random
    /\ UNCHANGED <<raw, sample, sampleOther, sampleAtCall, pc, datasets, result, errors, saveFailed, reads, persisted>>
    /\ UNCHANGED <<urlVars, archive, pipelineVars, generated, dashboardVars>>

NextGenerator ==
    \/ RunGenerator
    \/ OtherDraw

SpecGenerator == InitGenerator /\ [][NextGenerator]_vars

(***************************************************************************)
(* The dashboard: load_data of app.py and of the pages                     *)
(***************************************************************************)
\* the pages of the multi-page app that read st.session_state['datasets']
Pages == {"1_Sales_Performance", "2_Customer_Analysis", "3_Data_Quality"}

\* a named-table collection held by the dashboard: where it came from and
\* its keys
Collection(origin, keys) == [origin |-> origin, keys |-> keys]

\* what extract_data of the real extractor can return to the dashboard
DashboardExtractResults ==
    {None} \cup {Collection("extractor", K) : K \in {{}, {"orders"}, Tables}}

\* generate_sample_data of the stand-in class defined when the import of
\* src.etl.extract fails (lines 27-75)
MockSampleData ==
    Collection("sample_fallback", {"orders", "customers", "order_items", "products", "reviews"})

\* the dict built in the outer except of load_data (lines 140-165)
LastResortData ==
    Collection("last_resort", {"orders", "customers", "order_items", "products", "reviews"})

\* the body of load_data (app.py lines 120-165), as value: what it returns,
\* stored: whether line 133 was executed.  The stand-in class has no method
\* extract_data, the real class has no method generate_sample_data: both
\* calls raise AttributeError.  ctor_raises: DataExtractor() raises
load_data(class, ctor_raises, extracted) ==
    IF class = "stand-in"
    THEN [value |-> MockSampleData, stored |-> TRUE]
    ELSE IF ctor_raises \/ extracted = None
         THEN [value |-> LastResortData, stored |-> FALSE]
         ELSE [value |-> extracted, stored |-> TRUE]

InitDashboard ==
    /\ raw = [t \in Tables |-> Absent]
    /\ sample = [t \in Tables |-> Absent]
    /\ sampleOther = FALSE
    /\ sampleAtCall = sample
    /\ pc = "dashboard"
    /\ datasets = None
    /\ result = Pending
    /\ errors = <<>>
    /\ trace = <<>>
    /\ saveFailed = {}
    /\ reads = <<>>
    /\ persisted = FALSE
    /\ NoUrlCall /\ NoArchive /\ NoPipelineRun /\ NoGeneratorRun
    /\ extractor_class \in {"DataExtractor", "stand-in"}
    /\ cache = NoEntry
    /\ session_state = [s \in Sessions |-> NoDatasetsKey]
    /\ returned = [s \in Sessions |-> Pending]
    /\ shown = [s \in Sessions |-> "nothing"]

\* a session runs app.py: main calls load_data (lines 371-376).  With an
\* entry in the cache st.cache_data returns the cached value without
\* running the body; the cache is shared by all sessions
MainPage ==
    \E s \in Sessions :
        /\ \/ /\ cache # NoEntry
              /\ returned' = [returned EXCEPT ![s] = cache.value]
              /\ UNCHANGED <<cache, session_state>>
           \/ /\ cache = NoEntry
              /\ \E ctor_raises \in BOOLEAN, extracted \in DashboardExtractResults :
                    LET call == load_data(extractor_class, ctor_raises, extracted)
                    IN  /\ returned' = [returned EXCEPT ![s] = call.value]
                        /\ cache' = [entry |-> TRUE, value |-> call.value]
                        /\ session_state' =
                              IF call.stored
                              THEN [session_state EXCEPT ![s] = call.value]
                              ELSE session_state
        /\ shown' = [shown EXCEPT ![s] = "main"]
        /\ UNCHANGED <<extractor_class, extractVars, urlVars, archive, pipelineVars, generatorVars>>

\* a session runs one of the pages: its load_data (pages/*.py lines 20-25)
\* warns and stops when 'datasets' is not in st.session_state
SubPage ==
    \E s \in Sessions, page \in Pages :
        /\ shown' = [shown EXCEPT ![s] =
                        IF session_state[s] = NoDatasetsKey THEN "stopped" ELSE page]
        /\ UNCHANGED <<extractor_class, cache, session_state, returned>>
        /\ UNCHANGED <<extractVars, urlVars, archive, pipelineVars, generatorVars>>

NextDashboard ==
    \/ MainPage
    \/ SubPage

SpecDashboard == InitDashboard /\ [][NextDashboard]_vars

(***************************************************************************)
(* Properties                                                              *)
(***************************************************************************)
Range(seq) == {seq[i] : i \in DOMAIN seq}

IsStage(e) == e \in {"raw", "sample", "api", "validate"}

\* the stages of a trace, without the steps inside a stage
StagesOf(tr) == SelectSeq(tr, IsStage)

\* this step attempts the stage
Attempts(stage) == StagesOf(trace') = Append(StagesOf(trace), stage)

\* a named-table collection, as opposed to None
IsCollection(v) == DOMAIN v \subseteq Tables

RawReadable == {t \in Tables : raw[t].kind = "csv"}
RawUnparsable == {t \in Tables : raw[t].kind = "bad"}
RawAbsent == \A t \in Tables : raw[t].kind = "absent"
SampleExistedAtCall == \E t \in Tables : sampleAtCall[t].kind # "absent"

\* C1: in every extract_data call the stages run in the order raw, sample,
\* API: raw first, sample only when raw returned None, API only when raw and
\* sample returned None, validation only when some stage returned a
\* collection; once a stage has returned a collection no further stage runs.
C1_StageOrder ==
    [][ /\ Attempts("raw") => trace = <<>>
        /\ Attempts("sample") => StagesOf(trace) = <<"raw">> /\ datasets = None
        /\ Attempts("api") => StagesOf(trace) = <<"raw", "sample">> /\ datasets = None
        /\ Attempts("validate") =>
              /\ datasets # None
              /\ StagesOf(trace) \in {<<"raw">>, <<"raw", "sample">>}
        /\ (pc \in {"kaggle", "sample", "api", "check"} /\ datasets # None) =>
              (StagesOf(trace') = StagesOf(trace) \/ Attempts("validate"))
      ]_vars

C1_Witness ==
    pc = "done" /\ StagesOf(trace) = <<"raw", "sample", "validate">> /\ result # None

\* C2: extract_from_kaggle returns a collection only when all six raw files
\* are present and readable, and then the collection has all six tables; with
\* any file missing it returns None, never a partial collection.
C2_RawAllOrNothing ==
    trace = <<"raw">> =>
        /\ datasets # None => (RawReadable = Tables /\ DOMAIN datasets = Tables)
        /\ RawReadable # Tables => datasets = None

C2_Witness ==
    /\ trace = <<"raw">>
    /\ Cardinality({t \in Tables : raw[t].kind = "absent"}) = 1
    /\ Cardinality(RawReadable) = 5
    /\ datasets = None

\* C3: with a raw file that is present but does not parse, the raw stage
\* returns None as for a missing file, the coordinator goes on to the sample
\* stage, and the call returns None or a collection without any raw table.
C3_ParseFailureIsMissing ==
    RawUnparsable # {} =>
        /\ trace = <<"raw">> => (datasets = None /\ pc = "sample")
        /\ pc = "done" =>
              /\ Len(StagesOf(trace)) >= 2
              /\ StagesOf(trace)[2] = "sample"
              /\ \/ result = None
                 \/ /\ IsCollection(result)
                    /\ \A t \in DOMAIN result : result[t].src # "raw"

C3_Witness ==
    /\ pc = "done"
    /\ Cardinality(RawUnparsable) = 1
    /\ Cardinality(RawReadable) = 5
    /\ result # None
    /\ DOMAIN result = Tables

\* C4: when no raw file exists and some sample file existed when the call
\* began, the call never runs the generator, leaves the sample directory as
\* it was, and returns a collection whose tables are the frames read from
\* the sample files.
C4_SampleBeforeGeneration ==
    (pc # "idle" /\ RawAbsent /\ SampleExistedAtCall) =>
        /\ "generate" \notin Range(trace)
        /\ sample = sampleAtCall
        /\ pc = "done" =>
              /\ result # None
              /\ IsCollection(result)
              /\ \A t \in DOMAIN result :
                    /\ result[t].src = "sample"
                    /\ sampleAtCall[t].kind = "csv"
                    /\ result[t].rows = sampleAtCall[t].rows
                    /\ result[t].cols = sampleAtCall[t].cols

C4_Witness ==
    /\ pc = "done"
    /\ RawAbsent
    /\ \A t \in Tables : sampleAtCall[t].kind = "csv"
    /\ DOMAIN result = Tables

\* the sample stage has just returned from _load_existing_sample_data
SampleLoaded ==
    /\ pc \in {"check", "api"}
    /\ StagesOf(trace) = <<"raw", "sample">>
    /\ "load" \in Range(trace)

\* C5: loading existing sample files yields a collection only if all six
\* sample files are present and parse; otherwise the sample stage returns
\* None and the coordinator goes on to the API stage.
C5_SampleAllOrNothing ==
    SampleLoaded =>
        IF \A t \in Tables : sample[t].kind = "csv"
        THEN datasets # None /\ DOMAIN datasets = Tables
        ELSE datasets = None /\ pc = "api"

Sources == {"raw", "sample", "generated"}

SingleSource(c) == \E s \in Sources : \A t \in DOMAIN c : c[t].src = s

\* C6: every collection a stage hands to the coordinator, and every
\* collection extract_data returns, has all its tables from one source; when
\* the raw stage failed, no raw table is in the result.
C6_NoMixedSources ==
    /\ datasets # None => SingleSource(datasets)
    /\ (pc = "done" /\ result # None) =>
          /\ SingleSource(result)
          /\ RawReadable # Tables => \A t \in DOMAIN result : result[t].src # "raw"

C6_Witness ==
    /\ pc = "done"
    /\ RawReadable \notin {{}, Tables}
    /\ result # None
    /\ DOMAIN result = Tables
    /\ \A t \in Tables : result[t].src = "sample"

\* C7: the API stage always returns None; a call in which the sample stage
\* failed (after the raw stage) reaches the API stage, and a call that
\* reached the API stage returns None without running validation.
C7_ApiUnavailable ==
    /\ (StagesOf(trace) = <<"raw", "sample", "api">>) => datasets = None
    /\ (pc = "done" /\ "raise" \in Range(trace)) => "api" \in Range(trace)
    /\ (pc = "done" /\ "api" \in Range(trace)) =>
          (result = None /\ "validate" \notin Range(trace))

C7_Witness ==
    /\ pc = "done"
    /\ trace = <<"raw", "sample", "generate", "raise", "api">>
    /\ result = None

\* C8: extract_data always terminates and never raises: a call is never
\* stuck before its return, it attempts at most three stages (so it returns
\* within five steps), and what it returns is None or a collection, whatever
\* the stages' outcomes were (unparsable files, a generator that raises,
\* to_csv calls that raise).
C8_AlwaysReturns ==
    /\ pc # "done" => ENABLED Next
    /\ Len(StagesOf(trace)) <= 3
    /\ pc = "done" => (result = None \/ IsCollection(result))

C8_Witness ==
    /\ pc = "done"
    /\ RawUnparsable # {}
    /\ "raise" \in Range(trace)
    /\ result = None

\* C9: a return value of extract_data that is not None holds at least one
\* table.
C9_SuccessHasTable ==
    (pc = "done" /\ result # None) => DOMAIN result # {}

\* C10: of the frames with at least 2 columns passed to
\* validate_extracted_data, those with fewer than 10 rows are dropped and
\* those with 10 rows or more are kept.
C10_RowThreshold ==
    (pc = "returned" /\ datasets # None) =>
        \A n \in DOMAIN datasets :
            (datasets[n].kind = "frame" /\ datasets[n].cols >= 2) =>
                /\ datasets[n].rows < 10 => n \notin DOMAIN result
                /\ datasets[n].rows >= 10 => n \in DOMAIN result

C10_Witness ==
    /\ pc = "returned"
    /\ datasets # None
    /\ \E n, m \in DOMAIN datasets :
          /\ datasets[n].kind = "frame" /\ datasets[n].cols >= 2 /\ datasets[n].rows = 9
          /\ datasets[m].kind = "frame" /\ datasets[m].cols >= 2 /\ datasets[m].rows = 10
          /\ n \notin DOMAIN result
          /\ m \in DOMAIN result

\* C11: validate_extracted_data drops every table that is None or empty and
\* every table with fewer than 2 columns, whatever its row count; the call
\* still returns a collection, and every other table that meets the
\* thresholds is kept in it.
C11_DropsAbsentEmptyNarrow ==
    (pc = "returned" /\ datasets # None) =>
        /\ result # Pending /\ result # None /\ IsCollection(result)
        /\ \A n \in DOMAIN datasets :
              /\ datasets[n].kind = "none" => n \notin DOMAIN result
              /\ (datasets[n].kind = "frame" /\ IsEmpty(datasets[n])) => n \notin DOMAIN result
              /\ (datasets[n].kind = "frame" /\ datasets[n].cols < 2) => n \notin DOMAIN result
              /\ (datasets[n].kind = "frame" /\ datasets[n].cols >= 2 /\ datasets[n].rows >= 10)
                    => n \in DOMAIN result

C11_Witness ==
    /\ pc = "returned"
    /\ datasets # None
    /\ \E n, m \in DOMAIN datasets :
          /\ datasets[n].kind = "frame" /\ datasets[n].cols = 1 /\ datasets[n].rows > 10
          /\ n \notin DOMAIN result
          /\ m \in DOMAIN result
    /\ \E e \in Range(errors) : e[2] = "Dataset has too few columns"

\* C12: every table in a collection returned by extract_data is a non-empty
\* frame with at least 2 columns and at least 10 rows, and no table of the
\* extracted collection that fails one of these gates is in the result.
C12_NoGarbageReturned ==
    (pc = "done" /\ result # None) =>
        /\ \A t \in DOMAIN result :
              /\ result[t].kind = "frame"
              /\ ~IsEmpty(result[t])
              /\ result[t].cols >= 2
              /\ result[t].rows >= 10
        /\ \A t \in DOMAIN datasets :
              (\/ datasets[t].kind # "frame"
               \/ IsEmpty(datasets[t])
               \/ datasets[t].cols < 2
               \/ datasets[t].rows < 10) => t \notin DOMAIN result

C12_Witness ==
    /\ pc = "done"
    /\ result # None
    /\ \E t, u \in DOMAIN datasets :
          /\ datasets[t].rows < 10
          /\ t \notin DOMAIN result
          /\ u \in DOMAIN result

\* C13: validate_extracted_data always returns a value.  A table whose
\* check raises is dropped with a recorded reason while the other tables
\* are validated as usual (kept if they meet the thresholds, dropped with
\* their own reason if not); an argument on which the validation as a whole
\* raises is returned as it was passed.
C13_ValidateNeverRaises ==
    pc = "returned" =>
        /\ result # Pending
        /\ datasets = None => result = None
        /\ datasets # None =>
              /\ IsCollection(result)
              /\ \A n \in DOMAIN datasets :
                    /\ datasets[n].kind = "object" =>
                          /\ n \notin DOMAIN result
                          /\ <<n, "Validation error">> \in Range(errors)
                    /\ (datasets[n].kind = "frame" /\ datasets[n].cols >= 2
                            /\ datasets[n].rows >= 10) => n \in DOMAIN result
                    /\ n \notin DOMAIN result => \E e \in Range(errors) : e[1] = n

C13_Witness ==
    /\ pc = "returned"
    /\ datasets # None
    /\ \E n, m \in DOMAIN datasets :
          /\ datasets[n].kind = "object"
          /\ n \notin DOMAIN result
          /\ <<n, "Validation error">> \in Range(errors)
          /\ m \in DOMAIN result

\* C14: for every table that passes validation, the null_percentage
\* attached to it is (null cells) / (rows * columns) * 100; it is 25 for a
\* table of 100 cells with 25 nulls and 0 for a table without nulls.
C14_NullPercentage ==
    (pc = "returned" /\ datasets # None) =>
        \A n \in DOMAIN result :
            LET p == result[n].attrs.null_percentage
                cells == result[n].rows * result[n].cols
            IN  /\ p[2] > 0
                /\ p[1] * cells = result[n].nulls * 100 * p[2]
                /\ (cells = 100 /\ result[n].nulls = 25) => p = <<25, 1>>
                /\ result[n].nulls = 0 => p = <<0, 1>>

C14_Witness ==
    /\ pc = "returned"
    /\ datasets # None
    /\ \E n, m \in DOMAIN result :
          /\ result[n].rows * result[n].cols = 100
          /\ result[n].nulls = 25
          /\ result[n].attrs.null_percentage = <<25, 1>>
          /\ result[m].nulls = 0
          /\ result[m].attrs.null_percentage = <<0, 1>>

\* the sample stage of this call generated the tables and returned them
GeneratedAndSaved == "save" \in Range(trace)

\* C15 as stated: whenever the sample stage succeeds via generation, all six
\* expected sample files exist in the sample location afterwards.
C15_AllSixPersisted ==
    GeneratedAndSaved => \A t \in Tables : sample[t].kind = "csv"

\* C15, amended: a sample stage that finds no .csv file in the sample
\* location invokes the generator; if the generator returns, each of its six
\* tables is written to the sample location unless its write raises, and
\* only then does the stage succeed with the six generated tables.
\* Afterwards the file of every table whose write did not raise exists with
\* that table's content; a table whose write raised is still returned.
C15_GeneratedThenSaved ==
    /\ ("sample" \in Range(trace) /\ sampleAtCall = [t \in Tables |-> Absent] /\ ~sampleOther)
          => "generate" \in Range(trace)
    /\ "generate" \in Range(trace) =>
          (sampleAtCall = [t \in Tables |-> Absent] /\ ~sampleOther)
    /\ GeneratedAndSaved =>
          /\ SubSeq(trace, 1, 4) = <<"raw", "sample", "generate", "save">>
          /\ pc \in {"check", "done"}
          /\ DOMAIN datasets = Tables
          /\ \A t \in Tables : datasets[t].src = "generated"
          /\ \A t \in Tables \ saveFailed :
                /\ sample[t].kind = "csv"
                /\ sample[t].rows = datasets[t].rows
                /\ sample[t].cols = datasets[t].cols
          /\ saveFailed \subseteq DOMAIN datasets

C15_Witness ==
    /\ GeneratedAndSaved
    /\ pc = "done"
    /\ saveFailed # {}
    /\ \A t \in Tables \ saveFailed : sample[t].kind = "csv"
    /\ \E t \in saveFailed : sample[t] = Absent /\ t \in DOMAIN result

\* C16: a call of extract_data that finds no raw file and no sample file,
\* and in which the generator does not raise, returns a collection with all
\* six keys: 1000 customers, 500 products, 200 sellers, 2000 orders, between
\* 2000 and 8000 order items and at most 800 reviews, all generated.
C16_EndToEndGenerated ==
    (/\ pc = "done"
     /\ RawAbsent
     /\ sampleAtCall = [t \in Tables |-> Absent] /\ ~sampleOther
     /\ "raise" \notin Range(trace)) =>
        /\ result # None
        /\ DOMAIN result = {"customers", "orders", "order_items", "products", "sellers", "reviews"}
        /\ \A t \in DOMAIN result : result[t].src = "generated"
        /\ result["customers"].rows = 1000
        /\ result["products"].rows = 500
        /\ result["sellers"].rows = 200
        /\ result["orders"].rows = 2000
        /\ result["order_items"].rows \in 2000 .. 8000
        /\ result["reviews"].rows <= 800

C16_Witness ==
    /\ pc = "done"
    /\ RawAbsent
    /\ sampleAtCall = [t \in Tables |-> Absent] /\ ~sampleOther
    /\ trace = <<"raw", "sample", "generate", "save", "validate">>
    /\ DOMAIN result = Tables
    /\ result["order_items"].rows = 8000
    /\ result["reviews"].rows = 800

\* the download attempts made so far, the failed ones among them, and the
\* delays taken
Tries == Count(trace, "attempt")
FailedTries == Tries - Count(trace, "ok")
Sleeps == Count(trace, "sleep")

\* C21: two runs of the same generator in one process return identical
\* tables (the same rows with the same values in the same order), whatever
\* ran or drew from the pseudo-random generators before or between them.
C21_GeneratorDeterministic ==
    \A i, j \in DOMAIN generated :
        generated[i].name = generated[j].name => generated[i].tables = generated[j].tables

C21_Witness ==
    /\ Len(generated) = 2
    /\ generated[1].name = generated[2].name
    /\ generated[1].tables = generated[2].tables
    /\ Len(generated[1].tables.order_items) > 0
    /\ \E k \in 1 .. Len(trace) - 2 :
          /\ trace[k] = generated[1].name
          /\ trace[k + 1] \in {"np.random", "random"}
          /\ trace[k + 2] = generated[2].name

\* the ids of a generated table of customers, products or sellers
Ids(table) == {table[i].id : i \in DOMAIN table}

\* C22: in the tables of every generator run, each order item's product_id,
\* seller_id and order_id is the id of a generated product, seller and
\* order, and each order's customer_id is the id of a generated customer.
C22_ReferentialIntegrity ==
    \A r \in DOMAIN generated :
        LET t == generated[r].tables
            order_ids == {t.orders[k].order_id : k \in DOMAIN t.orders}
        IN  /\ \A k \in DOMAIN t.order_items :
                  /\ t.order_items[k].product_id \in Ids(t.products)
                  /\ t.order_items[k].seller_id \in Ids(t.sellers)
                  /\ t.order_items[k].order_id \in order_ids
            /\ \A k \in DOMAIN t.orders :
                  t.orders[k].customer_id \in Ids(t.customers)

C22_Witness ==
    /\ Len(generated) = 2
    /\ generated[1].name # generated[2].name
    /\ \A r \in DOMAIN generated :
          LET t == generated[r].tables
          IN  /\ Len(t.order_items) > Len(t.orders)
              /\ \E k \in DOMAIN t.orders : t.orders[k].customer_id = Len(t.customers)
              /\ \E k \in DOMAIN t.order_items : t.order_items[k].product_id = Len(t.products)

\* C23: in the tables of every generator run, each review's order_id is the
\* id of a generated order whose status is delivered, no order has more
\* than one review, and every review score is in 1..5.
C23_ReviewsOfDeliveredOrders ==
    \A r \in DOMAIN generated :
        LET t == generated[r].tables
        IN  /\ \A k \in DOMAIN t.reviews :
                  /\ \E o \in DOMAIN t.orders :
                        /\ t.orders[o].order_id = t.reviews[k].order_id
                        /\ t.orders[o].order_status = "delivered"
                  /\ t.reviews[k].review_score \in 1 .. 5
            /\ \A j, k \in DOMAIN t.reviews :
                  t.reviews[j].order_id = t.reviews[k].order_id => j = k

C23_Witness ==
    /\ Len(generated) > 0
    /\ LET t == generated[1].tables
       IN  /\ Len(t.reviews) > 1
           /\ \E o \in DOMAIN t.orders : t.orders[o].order_status # "delivered"
           /\ \E o \in DOMAIN t.orders :
                 /\ t.orders[o].order_status = "delivered"
                 /\ \A k \in DOMAIN t.reviews : t.reviews[k].order_id # t.orders[o].order_id

\* C17: with retry_attempts = n, extract_from_url makes at most n download
\* attempts; a successful attempt is the last one and its table is returned;
\* None is returned exactly when n attempts have failed, and for n <= 0
\* without any attempt.
C17_UrlRetryBound ==
    /\ Tries <= (IF retry_attempts > 0 THEN retry_attempts ELSE 0)
    /\ "ok" \in Range(trace) =>
          /\ pc = "url_returned"
          /\ Count(trace, "ok") = 1
          /\ trace[Len(trace)] = "ok"
          /\ result = UrlFrame
    /\ pc = "url_returned" =>
          /\ result # Pending
          /\ result = None <=> "ok" \notin Range(trace)
          /\ result = None =>
                /\ Tries = (IF retry_attempts > 0 THEN retry_attempts ELSE 0)
                /\ FailedTries = Tries

C17_Witness ==
    /\ pc = "url_returned"
    /\ retry_attempts = 3
    /\ Tries = 3
    /\ result = None

\* C18: extract_from_url sleeps the fixed delay of 2 seconds exactly once
\* between two consecutive attempts, and never after the final attempt or
\* after a success: a call that returned after k failed attempts has slept
\* k - 1 times if all its attempts failed and k times if attempt k + 1
\* succeeded.
C18_UrlRetryDelay ==
    /\ slept = 2 * Sleeps
    /\ \A i \in 1 .. Len(trace) :
          /\ (trace[i] = "attempt" /\ i > 1) =>
                (trace[i - 1] = "sleep" /\ trace[i - 2] # "sleep")
          /\ trace[i] = "sleep" => trace[i - 1] \notin {"ok", "attempt", "sleep"}
    /\ pc = "url_returned" =>
          /\ Len(trace) > 0 => trace[Len(trace)] # "sleep"
          /\ (result = None /\ FailedTries > 0) => Sleeps = FailedTries - 1
          /\ (result = None /\ FailedTries = 0) => Sleeps = 0
          /\ result # None => Sleeps = FailedTries

C18_Witness ==
    /\ pc = "url_returned"
    /\ result = UrlFrame
    /\ FailedTries = 2
    /\ Sleeps = 2
    /\ slept = 4

\* C19 as stated: when opening the ZIP archive fails, extract_from_zip
\* retries up to the configured attempt count, with the fixed delay between
\* the attempts, before it reports None.
C19_ZipRetries ==
    (pc = "zip_returned" /\ archive.kind # "zip" /\ retry_attempts > 1) =>
        /\ Count(trace, "open") = retry_attempts
        /\ slept = 2 * (retry_attempts - 1)

\* C19, amended: extract_from_zip opens the archive once, whatever the
\* configured attempt count, and never sleeps; if the open fails it reports
\* None at once; otherwise it returns the CSV members it could read, a
\* member that cannot be read being skipped, and None if it could read none.
C19_ZipSingleAttempt ==
    pc = "zip_returned" =>
        /\ Count(trace, "open") = 1
        /\ slept = 0
        /\ archive.kind # "zip" => result = None
        /\ archive.kind = "zip" =>
              LET read == {k \in DOMAIN archive.members : archive.members[k].kind = "csv"}
              IN  /\ read = {} => result = None
                  /\ read # {} => (result # None /\ DOMAIN result = read)

C19_Witness ==
    /\ pc = "zip_returned"
    /\ archive = Bad
    /\ retry_attempts = 3
    /\ Count(trace, "open") = 1
    /\ slept = 0
    /\ result = None

\* the position of event e in the history tr, 0 if it did not happen
Position(tr, e) == IF e \in Range(tr) THEN CHOOSE i \in 1 .. Len(tr) : tr[i] = e ELSE 0

\* C20: the steps of a pipeline run happen in order and at most once:
\* transform_data is called only after extract_data returned a collection,
\* load_data only after transform_data returned a value.  If extract_data
\* returned None, run_full_pipeline returns False without calling
\* transform_data or load_data, and main skips the SQL analysis and exits
\* with status 1.
C20_ExtractionFailureFatal ==
    /\ \A e \in Range(trace) : Count(trace, e) = 1
    /\ Len(trace) > 0 => trace[1] = "extract"
    /\ "transform" \in Range(trace) =>
          /\ Position(trace, "transform") = Position(trace, "extract") + 1
          /\ raw_data # Pending /\ raw_data # None
    /\ "load" \in Range(trace) =>
          /\ Position(trace, "load") = Position(trace, "transform") + 1
          /\ transformed_data # Pending /\ transformed_data # None
    /\ "sql_analysis" \in Range(trace) =>
          (success = Returned(TRUE) /\ "load" \in Range(trace))
    /\ raw_data = None =>
          /\ success = Returned(FALSE)
          /\ Range(trace) \subseteq {"extract", "exit"}
          /\ pc \in {"main", "exited"}
          /\ pc = "main" => ENABLED MainBranch
          /\ pc = "exited" => (trace = <<"extract", "exit">> /\ exit_status = Exit(1))

C20_Witness ==
    /\ pc = "exited"
    /\ raw_data = None
    /\ success = Returned(FALSE)
    /\ trace = <<"extract", "exit">>
    /\ exit_status = Exit(1)

\* C24: after validate_extracted_data has returned, every table of the
\* output carries the three metadata items: an extraction timestamp, a
\* null_percentage, and a source_name equal to the key under which the table
\* stands in the output; a table that was dropped stands under no key of the
\* output, neither under its own nor under another one.
C24_KeptTablesCarryMetadata ==
    (pc = "returned" /\ datasets # None) =>
        /\ \A n \in DOMAIN result :
              /\ result[n].attrs.stamped
              /\ result[n].attrs.source_name = n
              /\ result[n].attrs.null_percentage # NoAttrs.null_percentage
                    \/ result[n].nulls = 0
              /\ datasets[n] = result[n]
        /\ \A n \in DOMAIN datasets :
              Rejection(datasets[n]) # "" =>
                  /\ n \notin DOMAIN result
                  /\ datasets[n].kind = "frame" => ~datasets[n].attrs.stamped
                  /\ \A k \in DOMAIN result :
                        [result[k] EXCEPT !.attrs = NoAttrs] # datasets[n]

C24_Witness ==
    /\ pc = "returned"
    /\ datasets # None
    /\ \E n, m \in DOMAIN datasets :
          /\ n \in DOMAIN result
          /\ result[n].attrs.stamped
          /\ result[n].attrs.source_name = n
          /\ result[n].nulls > 0
          /\ m \notin DOMAIN result
          /\ datasets[m].kind = "frame"
          /\ datasets[m].rows = min_rows - 1

\* the rejection reasons recorded for the table under key n
ReasonsOf(n) == {i \in DOMAIN errors : errors[i][1] = n}

\* C27: validation partitions its input.  After validate_extracted_data has
\* returned, each table of the input is either in the output under the same
\* key, with no rejection reason recorded, or absent from the output with
\* exactly one rejection reason recorded; every key of the output and every
\* recorded reason belongs to a key of the input.
C27_ValidationPartitions ==
    (pc = "returned" /\ datasets # None) =>
        /\ DOMAIN result \subseteq DOMAIN datasets
        /\ \A i \in DOMAIN errors : errors[i][1] \in DOMAIN datasets
        /\ \A n \in DOMAIN datasets :
              \/ n \in DOMAIN result /\ ReasonsOf(n) = {}
              \/ n \notin DOMAIN result /\ Cardinality(ReasonsOf(n)) = 1
        /\ Cardinality(DOMAIN result) + Len(errors) = Cardinality(DOMAIN datasets)

C27_Witness ==
    /\ pc = "returned"
    /\ datasets # None
    /\ \E n, m \in DOMAIN datasets :
          /\ n \in DOMAIN result
          /\ ReasonsOf(n) = {}
          /\ m \notin DOMAIN result
          /\ datasets[m] = NotAFrame
          /\ errors = <<<<m, "Validation error">>>>

\* the rows, columns and cell values of two frames are the same
SameData(a, b) ==
    /\ a.kind = b.kind
    /\ a.kind = "frame" =>
          (a.rows = b.rows /\ a.cols = b.cols /\ a.nulls = b.nulls /\ a.src = b.src)

\* C25: frame condition of extract_data.  A source stage hands over its
\* tables as it built them: untouched metadata, and for the generation path
\* the very rows that were written to the sample files.  From then on the
\* collection keeps its keys and each table its rows, columns and cell values;
\* the only step that changes a table is validation, which changes only the
\* metadata attributes of the tables it keeps and leaves every dropped table
\* as it was, and the tables returned are the ones validated in place.
C25_FrameCondition ==
    [][/\ (datasets = None /\ datasets' # None) =>
             \A n \in DOMAIN datasets' :
                 /\ datasets'[n].attrs = NoAttrs
                 /\ datasets'[n].src = "raw" => to_csv(datasets'[n]) = raw[n]
                 /\ datasets'[n].src = "sample" => to_csv(datasets'[n]) = sample[n]
                 /\ (datasets'[n].src = "generated" /\ n \notin saveFailed') =>
                        to_csv(datasets'[n]) = sample'[n]
       /\ (datasets # None /\ pc' # "kaggle") =>
             /\ datasets' # None
             /\ DOMAIN datasets' = DOMAIN datasets
             /\ \A n \in DOMAIN datasets :
                   /\ SameData(datasets[n], datasets'[n])
                   /\ datasets'[n] # datasets[n] =>
                         (pc = "check" /\ pc' = "done" /\ n \in DOMAIN result')
             /\ pc' = "done" =>
                   \A n \in DOMAIN result' : result'[n] = datasets'[n]
      ]_vars

C25_Witness ==
    /\ pc = "done"
    /\ datasets # None
    /\ \E n, m \in DOMAIN datasets :
          /\ n \in DOMAIN result
          /\ datasets[n].attrs.stamped
          /\ to_csv(datasets[n]) = raw[n]
          /\ m \notin DOMAIN result
          /\ datasets[m].attrs = NoAttrs
          /\ to_csv(datasets[m]) = raw[m]

\* the pd.read_csv calls on record for one file
ReadsOf(name, t) == {i \in DOMAIN reads : reads[i] = <<name, t>>}

\* C26: within one extract_data call each source stage (raw, sample, API) is
\* attempted at most once, and in this order; each expected file of a data
\* directory is read at most once, by the stage of its directory only, and a
\* file whose read failed is not read again; no file is read on the
\* generation path.
C26_SingleAttempt ==
    /\ \A s \in {"raw", "sample", "api", "load", "generate"} : Count(trace, s) <= 1
    /\ \A j \in DOMAIN StagesOf(trace) : StagesOf(trace)[j] = "raw" => j = 1
    /\ ("api" \in Range(trace) /\ "sample" \in Range(trace)) =>
          Position(trace, "sample") < Position(trace, "api")
    /\ \A t \in Tables :
          /\ Cardinality(ReadsOf("raw", t)) <= 1
          /\ Cardinality(ReadsOf("sample", t)) <= 1
          /\ ReadsOf("raw", t) # {} <=>
                ("raw" \in Range(trace) /\ raw[t].kind # "absent")
          /\ ReadsOf("sample", t) # {} <=>
                ("load" \in Range(trace) /\ sample[t].kind # "absent")
    /\ Len(reads) =
          Cardinality({t \in Tables : ReadsOf("raw", t) # {}})
          + Cardinality({t \in Tables : ReadsOf("sample", t) # {}})

C26_Witness ==
    /\ pc = "done"
    /\ StagesOf(trace) = <<"raw", "sample", "validate">>
    /\ \E t \in Tables :
          /\ ReadRaises(raw[t])
          /\ Cardinality(ReadsOf("raw", t)) = 1
          /\ Cardinality(ReadsOf("sample", t)) = 1
    /\ \E t \in Tables :
          /\ ReadRaises(sample[t]) \/ sample[t].kind = "absent"

\* some file matching *.csv was in the sample directory when the call
\* began, one of the six expected files or any other
AnyCsvAtCall == SampleExistedAtCall \/ sampleOther

\* C28: a sample stage runs the generator if and only if the sample
\* directory held no .csv file at all, expected or not; otherwise it takes
\* the load path, even when none of the files present is an expected one.
C28_GenerateIffNoCsv ==
    /\ "sample" \in Range(trace) =>
          /\ "generate" \in Range(trace) <=> ~AnyCsvAtCall
          /\ "load" \in Range(trace) <=> AnyCsvAtCall
    /\ "sample" \notin Range(trace) =>
          ("generate" \notin Range(trace) /\ "load" \notin Range(trace))

C28_Witness ==
    /\ pc = "done"
    /\ sampleOther
    /\ ~SampleExistedAtCall
    /\ trace = <<"raw", "sample", "load", "validate">>
    /\ result # None
    /\ DOMAIN result = {}

\* this call began after some call had generated the six tables and written
\* all six files
LaterCall == persisted /\ pc # "idle" /\ SampleExistedAtCall

\* C29: repeated extraction is stable.  A call that takes the generation
\* path and writes all six files returns the six tables; every later call
\* (the raw files being as unavailable as before and nobody else touching the
\* sample directory) takes the load path: it never generates or writes, leaves
\* the sample directory as it found it, reads the six files and returns the
\* same six keys.
C29_RepeatedExtractionStable ==
    /\ (pc = "done" /\ "save" \in Range(trace) /\ saveFailed = {}) =>
          (persisted /\ result # None /\ DOMAIN result = Tables)
    /\ LaterCall =>
          /\ extract_from_kaggle(raw) = None
          /\ "generate" \notin Range(trace)
          /\ "save" \notin Range(trace)
          /\ sample = sampleAtCall
          /\ \A t \in Tables : sample[t].kind = "csv"
          /\ pc = "done" =>
                /\ trace = <<"raw", "sample", "load", "validate">>
                /\ result # None
                /\ DOMAIN result = Tables
                /\ \A t \in Tables : result[t].src = "sample"

C29_Witness ==
    /\ LaterCall
    /\ pc = "done"
    /\ trace = <<"raw", "sample", "load", "validate">>
    /\ DOMAIN result = Tables
    /\ sample["reviews"].rows = max_reviews
    /\ Len(reads) >= Cardinality(Tables)

\* C30: whenever load_data of the main page has returned a collection to a
\* session (from the extractor, from the sample-data fallback or the built-in
\* last-resort data), st.session_state['datasets'] of that session holds
\* that same collection, and no page run of a session whose main page has
\* loaded stops with the request to load data from the main dashboard first.
C30_DashboardHandOff ==
    \A s \in Sessions :
        returned[s] # Pending =>
            /\ session_state[s] = returned[s]
            /\ shown[s] # "stopped"

====
